---- MODULE Spec2Model ----
(***************************************************************************)
(* Model of the chart generators of the flight dashboard                   *)
(* (src/components/charts.py) and of the host page blocks that call them   *)
(* (src/app.py).                                                           *)
(*                                                                         *)
(* A table (pandas DataFrame) is a record [columns, rows]: the set of      *)
(* column names and the sequence of rows, each row a record over the       *)
(* columns.  A call of a generator ends either by returning the figure it  *)
(* built or by raising; `raised` is the exception ("none" when the call    *)
(* returned) and `fig` the local variable fig as it stood when the call    *)
(* ended (NoFig when the call raised before fig was bound).                *)
(*                                                                         *)
(* Numbers of the tables are integers.  The x-axis bound of the animated   *)
(* chart is kept in tenths (1.1 * v is 11 * v tenths, 100 is 1000 tenths). *)
(***************************************************************************)
EXTENDS Integers, Sequences, FiniteSets, TLC

VARIABLES state_metrics, daily_airline_metrics, hierarchy_data, COLORS,
          call, remembered, summary_stats, data_dir, page

vars == <<state_metrics, daily_airline_metrics, hierarchy_data, COLORS,
          call, remembered, summary_stats, data_dir, page>>

(***************************************************************************)
(* Bounds of the model.                                                    *)
(***************************************************************************)
MaxRows == 3

(***************************************************************************)
(* Python values.                                                          *)
(***************************************************************************)
\* None where a string is expected (selected_state=None).
None == "<None>"

\* None where a list is expected (selected_airlines=None), and a list.
NoList == [none |-> TRUE, list |-> <<>>]

List(l) == [none |-> FALSE, list |-> l]

\* Truth value of an optional string: None and '' are falsy.
TruthyStr(s) == s # None /\ s # ""

\* Truth value of an optional list: None and [] are falsy.
TruthyList(o) == ~o.none /\ o.list # <<>>

Range(s) == {s[i] : i \in 1..Len(s)}

RECURSIVE SetMax(_)
SetMax(S) ==
    LET x == CHOOSE y \in S : TRUE
    IN  IF S = {x} THEN x
        ELSE LET m == SetMax(S \ {x}) IN IF x > m THEN x ELSE m

RECURSIVE SeqSum(_)
SeqSum(s) == IF s = <<>> THEN 0 ELSE Head(s) + SeqSum(Tail(s))

\* Values of a sequence in order of first appearance (pandas unique()).
RECURSIVE Unique(_)
Unique(s) ==
    IF s = <<>> THEN <<>>
    ELSE LET init == Unique(SubSeq(s, 1, Len(s) - 1))
             x == s[Len(s)]
         IN  IF x \in Range(init) THEN init ELSE Append(init, x)

Column(rows, c) == [i \in 1..Len(rows) |-> rows[i][c]]

\* All sequences over S of length at most n.
RECURSIVE SeqsUpTo(_, _)
SeqsUpTo(S, n) ==
    IF n = 0 THEN {<<>>}
    ELSE LET shorter == SeqsUpTo(S, n - 1)
         IN  shorter \cup {Append(s, x) : s \in {t \in shorter : Len(t) = n - 1}, x \in S}

(***************************************************************************)
(* The palette (charts.py COLORS).  Only the entries the generators read.  *)
(***************************************************************************)
Palette ==
    [background |-> "#f8fafc", surface |-> "#ffffff", text |-> "#134e4a",
     grid |-> "#e2e8f0",
     chart_palette |-> <<"#0d9488", "#0ea5e9", "#f59e0b", "#8b5cf6", "#ef4444",
                         "#06b6d4", "#ec4899", "#84cc16", "#6366f1", "#14b8a6">>]

(***************************************************************************)
(* Input tables.  Rows are drawn from small pools; a table is any sequence *)
(* of at most MaxRows pool rows, so that duplicates, ties, a single day,   *)
(* a non-positive maximum and the empty table all occur.                   *)
(***************************************************************************)
DailyColumns ==
    {"Day", "Airline", "FlightCount", "AvgDepDelay", "OnTimeRate", "CancellationRate"}

Days == {1, 2}

AirlineOrder == <<"AA", "DL">>

Levels == {0, 1}

\* One row of daily_airline_metrics.csv.  The level v sets the four metric
\* columns to different values, with OnTimeRate falling as the others rise.
DailyRow(d, a, v) ==
    [Day |-> d, Airline |-> a,
     FlightCount |-> 10 + 10 * v,
     AvgDepDelay |-> 5 * v - 2,
     OnTimeRate |-> 90 - 20 * v,
     CancellationRate |-> v]

DailyPool == {DailyRow(d, a, v) : d \in Days, a \in Range(AirlineOrder), v \in Levels}

Table(cols, rows) == [columns |-> cols, rows |-> rows]

DailyTables == {Table(DailyColumns, rows) : rows \in SeqsUpTo(DailyPool, MaxRows)}

StateColumns ==
    {"StateCode", "StateName", "AvgDepDelay", "CancellationRate", "FlightCount"}

StateRow(code, name, v) ==
    [StateCode |-> code, StateName |-> name,
     AvgDepDelay |-> 7 * v - 3,
     CancellationRate |-> 2 * v,
     FlightCount |-> 1000 + 500 * v]

StatePool ==
    {StateRow("CA", "California", v) : v \in Levels}
        \cup {StateRow("TX", "Texas", v) : v \in Levels}

StateTables == {Table(StateColumns, rows) : rows \in SeqsUpTo(StatePool, MaxRows)}

HierarchyColumns ==
    {"State", "City", "Airport", "Airline", "FlightCount", "AvgDelay"}

HierarchyRow(s, c, ap, al, fc, d) ==
    [State |-> s, City |-> c, Airport |-> ap, Airline |-> al,
     FlightCount |-> fc, AvgDelay |-> d]

\* AvgDelay below 0, inside [0, 40] and above 40.
HierarchyPool ==
    {HierarchyRow("CA", "Los Angeles", "LAX", "AA", 3, 12),
     HierarchyRow("CA", "Los Angeles", "LAX", "DL", 2, 55),
     HierarchyRow("CA", "San Diego", "SAN", "AA", 1, 0 - 4),
     HierarchyRow("TX", "Dallas", "DFW", "AA", 4, 41)}

HierarchyTables ==
    {Table(HierarchyColumns, rows) : rows \in SeqsUpTo(HierarchyPool, MaxRows)}

(***************************************************************************)
(* Results of a call.                                                      *)
(***************************************************************************)
NoFig == [kind |-> "none"]

\* An exception that names no column (IndexError: tuple index out of range).
\* `column` is the column an error reports as not found, `message` the
\* names its text holds, `df` the generator's local table when the call
\* ends (kept for the animated chart, which sorts it).
Raise(exc, fig) ==
    [raised |-> exc, fig |-> fig, column |-> "", message |-> {}, df |-> <<>>]

Return(fig) ==
    [raised |-> "none", fig |-> fig, column |-> "", message |-> {}, df |-> <<>>]

\* df[column] of pandas for a column the table lacks: KeyError: 'column'.
key_error(column) ==
    [raised |-> "KeyError", fig |-> NoFig, column |-> column, message |-> {column},
     df |-> <<>>]

\* plotly express for an argument that names no column: ValueError "Value
\* of '...' is not the name of a column in 'data_frame'. Expected one of
\* [the columns] but received: column".
px_value_error(column, cols) ==
    [raised |-> "ValueError", fig |-> NoFig, column |-> column,
     message |-> {column} \cup cols, df |-> <<>>]

\* The first of the columns a step reads, in the order it reads them, that
\* the table lacks.
FirstMissing(reads, cols) ==
    reads[CHOOSE i \in 1..Len(reads) :
              /\ reads[i] \notin cols
              /\ \A j \in 1..(i - 1) : reads[j] \in cols]

(***************************************************************************)
(* 2. create_animated_airline_chart (charts.py 152-270)                    *)
(***************************************************************************)
\* metric_config of create_animated_airline_chart.
animated_metric_config ==
    [FlightCount |->
        [title |-> "Daily Flight Volume by Airline",
         subtitle |-> "Number of flights operated each day",
         x_label |-> "Daily Flights", format |-> ":,", suffix |-> " flights"],
     AvgDepDelay |->
        [title |-> "Average Departure Delay by Airline",
         subtitle |-> "Daily average delay in minutes",
         x_label |-> "Avg Delay (min)", format |-> ":.1f", suffix |-> " min"],
     OnTimeRate |->
        [title |-> "On-Time Performance by Airline",
         subtitle |-> "Percentage of flights arriving within 15 minutes",
         x_label |-> "On-Time %", format |-> ":.1f", suffix |-> "%"]]

\* config = metric_config.get(metric, metric_config['FlightCount'])
animated_config(metric) ==
    IF metric \in DOMAIN animated_metric_config
    THEN animated_metric_config[metric]
    ELSE animated_metric_config["FlightCount"]

\* The filter as it would be with the test "selected_airlines is not None".
filter_airlines_not_none(rows, selected_airlines) ==
    IF ~selected_airlines.none
    THEN SelectSeq(rows, LAMBDA r : r.Airline \in Range(selected_airlines.list))
    ELSE rows

\* if selected_airlines and len(selected_airlines) > 0:
\*     df = df[df['Airline'].isin(selected_airlines)]
filter_airlines(rows, selected_airlines) ==
    IF TruthyList(selected_airlines) /\ Len(selected_airlines.list) > 0
    THEN SelectSeq(rows, LAMBDA r : r.Airline \in Range(selected_airlines.list))
    ELSE rows

\* max_value = df[metric].max(): NaN for no rows.
max_value(rows, metric) ==
    IF rows = <<>> THEN [nan |-> TRUE, v |-> 0]
    ELSE [nan |-> FALSE, v |-> SetMax(Range(Column(rows, metric)))]

\* The bound as it would be with the test "max_value >= 0".
x_range_max_from_zero(rows, metric) ==
    LET m == max_value(rows, metric)
    IN  IF ~m.nan /\ m.v >= 0 THEN 11 * m.v ELSE 1000

\* x_range_max = max_value * 1.1 if max_value > 0 else 100, in tenths
\* (NaN > 0 is False).
x_range_max(rows, metric) ==
    LET m == max_value(rows, metric)
    IN  IF ~m.nan /\ m.v > 0 THEN 11 * m.v ELSE 1000

\* The flag as it would be with FlightCount alone in the list.
ascending_metric_flight_count(metric) == metric \in {"FlightCount"}

\* ascending_metric = metric in ['FlightCount', 'OnTimeRate']
ascending_metric(metric) == metric \in {"FlightCount", "OnTimeRate"}

\* Row a sorts strictly before row b under
\* sort_values(['Day', metric], ascending=[True, not ascending_metric]).
SortsBefore(a, b, metric) ==
    \/ a.Day < b.Day
    \/ /\ a.Day = b.Day
       /\ IF ~ascending_metric(metric)
          THEN a[metric] < b[metric]
          ELSE a[metric] > b[metric]

\* Insert row x behind every row of the sorted t that it does not sort
\* strictly before (rows that compare equal keep their input order).
RECURSIVE InsertRow(_, _, _)
InsertRow(t, x, metric) ==
    IF t = <<>> THEN <<x>>
    ELSE IF SortsBefore(x, t[Len(t)], metric)
         THEN Append(InsertRow(SubSeq(t, 1, Len(t) - 1), x, metric), t[Len(t)])
         ELSE Append(t, x)

\* df.sort_values(['Day', metric], ...): the stable multi-key sort of pandas.
RECURSIVE sort_values(_, _)
sort_values(rows, metric) ==
    IF rows = <<>> THEN <<>>
    ELSE InsertRow(sort_values(SubSeq(rows, 1, Len(rows) - 1), metric),
                   rows[Len(rows)], metric)

\* The columns px.bar is told to read (x, y, color, animation_frame, hover_data).
px_bar_columns(metric) ==
    {metric, "Airline", "Day", "FlightCount", "AvgDepDelay", "OnTimeRate",
     "CancellationRate"}

\* The same columns in the order of the arguments of px.bar.
px_bar_arguments(metric) ==
    <<metric, "Airline", "Airline", "Day", "Airline", "Day", "FlightCount",
      "AvgDepDelay", "OnTimeRate", "CancellationRate">>

\* The colour px gives the k-th airline in order of appearance: the
\* palette is cycled.
discrete_color(palette, k) == palette[((k - 1) % Len(palette)) + 1]

\* The traces of one animation frame: one bar trace per airline that has
\* rows on that day, airlines in order of first appearance in df.
frame_traces(rows, metric, day, palette) ==
    LET airlines == Unique(Column(rows, "Airline"))
        present == SelectSeq([k \in 1..Len(airlines) |-> k],
                       LAMBDA k : \E i \in 1..Len(rows) :
                           rows[i].Day = day /\ rows[i].Airline = airlines[k])
    IN  [j \in 1..Len(present) |->
            LET bars == SelectSeq(rows, LAMBDA r :
                            r.Day = day /\ r.Airline = airlines[present[j]])
            IN  [name |-> airlines[present[j]],
                 x |-> Column(bars, metric),
                 y |-> Column(bars, "Airline"),
                 marker_color |-> discrete_color(palette, present[j])]]

\* px.bar(df, x=metric, y='Airline', color='Airline', animation_frame='Day',
\* ...): one frame per distinct Day in order of appearance; plotly keeps the
\* frames, the play/pause menu and the slider only when there is more than
\* one frame.
px_bar(rows, metric, palette) ==
    LET days == Unique(Column(rows, "Day"))
        frame_list == [i \in 1..Len(days) |->
                          [name |-> days[i],
                           data |-> frame_traces(rows, metric, days[i], palette)]]
        animated == Len(frame_list) > 1
    IN  [kind |-> "bar",
         data |-> IF frame_list = <<>> THEN <<>> ELSE frame_list[1].data,
         frames |-> IF animated THEN frame_list ELSE <<>>,
         updatemenus |-> IF animated
                         THEN <<[frame_duration |-> 500, transition_duration |-> 500]>>
                         ELSE <<>>,
         sliders |-> IF animated THEN <<[currentvalue_prefix |-> "Day="]>> ELSE <<>>]

\* fig.update_layout(...) and fig.update_traces(...), lines 221-256.
animated_layout(fig, config, range_max) ==
    [kind |-> fig.kind, data |-> fig.data, frames |-> fig.frames,
     updatemenus |-> fig.updatemenus, sliders |-> fig.sliders,
     title |-> config.title, subtitle |-> config.subtitle,
     xaxis_title |-> config.x_label,
     xaxis_range |-> <<0, range_max>>,
     hover_format |-> config.format, hover_suffix |-> config.suffix]

\* Lines 259-268: the animation settings and the slider style.
animation_settings(fig) ==
    [fig EXCEPT
        !.updatemenus = <<[frame_duration |-> 400, transition_duration |-> 150]>>,
        !.sliders = IF fig.sliders # <<>>
                    THEN <<[currentvalue_prefix |-> "Day: "]>>
                    ELSE fig.sliders]

create_animated_airline_chart(daily_airline_df, metric, selected_airlines) ==
    LET config == animated_config(metric)
        cols == daily_airline_df.columns
        filters == TruthyList(selected_airlines) /\ Len(selected_airlines.list) > 0
    IN  IF filters /\ "Airline" \notin cols THEN key_error("Airline")
        ELSE IF metric \notin cols THEN key_error(metric)
        ELSE IF "Day" \notin cols THEN key_error("Day")
        ELSE IF ~(px_bar_columns(metric) \subseteq cols)
        THEN px_value_error(FirstMissing(px_bar_arguments(metric), cols), cols)
        ELSE
            LET df == filter_airlines(daily_airline_df.rows, selected_airlines)
                range_max == x_range_max(df, metric)
                sorted == sort_values(df, metric)
                fig == animated_layout(px_bar(sorted, metric, COLORS.chart_palette),
                                       config, range_max)
            IN  IF fig.updatemenus = <<>>
                THEN [Raise("IndexError", fig) EXCEPT !.df = sorted]
                ELSE [Return(animation_settings(fig)) EXCEPT !.df = sorted]

\* The caller's table as it would be left without the copy, the filter and
\* the sort done in place.
animated_input_after_inplace(daily_airline_df, metric, selected_airlines) ==
    IF {metric, "Day", "Airline"} \subseteq daily_airline_df.columns
    THEN Table(daily_airline_df.columns,
               sort_values(filter_airlines(daily_airline_df.rows, selected_airlines),
                           metric))
    ELSE daily_airline_df

\* What the call leaves in the caller's table: it works on
\* daily_airline_df.copy(), and the filter and the sort build new tables.
animated_input_after(daily_airline_df, metric, selected_airlines) ==
    daily_airline_df

(***************************************************************************)
(* 1. create_choropleth (charts.py 49-145)                                 *)
(***************************************************************************)
\* metric_config of create_choropleth.
choropleth_metric_config ==
    [AvgDepDelay |->
        [title |-> "Average Departure Delay by State", color_scale |-> "Teal",
         labels_z |-> "Avg Delay (min)", hover_suffix |-> " min",
         value_format |-> ".1f"],
     CancellationRate |->
        [title |-> "Flight Cancellation Rate by State", color_scale |-> "Teal",
         labels_z |-> "Cancel Rate (%)", hover_suffix |-> "%",
         value_format |-> ".2f"],
     FlightCount |->
        [title |-> "Total Flight Volume by State", color_scale |-> "Teal",
         labels_z |-> "Total Flights", hover_suffix |-> " flights",
         value_format |-> ",.0f"]]

\* config = metric_config.get(metric, metric_config['AvgDepDelay'])
choropleth_config(metric) ==
    IF metric \in DOMAIN choropleth_metric_config
    THEN choropleth_metric_config[metric]
    ELSE choropleth_metric_config["AvgDepDelay"]

\* The columns px.choropleth is told to read (locations, color, hover_data).
px_choropleth_columns(metric) == {"StateCode", metric, "StateName", "FlightCount"}

\* The same columns in the order of the arguments of px.choropleth.
px_choropleth_arguments(metric) ==
    <<"StateCode", metric, "StateCode", "StateName", "FlightCount", metric>>

DigitChars == <<"0", "1", "2", "3", "4", "5", "6", "7", "8", "9">>

\* The decimal digits of n >= 0, most significant first.
RECURSIVE Digits(_)
Digits(n) ==
    IF n < 10 THEN <<DigitChars[n + 1]>>
    ELSE Append(Digits(n \div 10), DigitChars[(n % 10) + 1])

\* The ',' option of a format: a separator before every group of three digits.
RECURSIVE Grouped(_)
Grouped(ds) ==
    IF Len(ds) <= 3 THEN ds
    ELSE Grouped(SubSeq(ds, 1, Len(ds) - 3)) \o <<",">>
             \o SubSeq(ds, Len(ds) - 2, Len(ds))

\* f"{value:{value_format}}" for a whole number and the formats of
\* metric_config ('.1f', '.2f', ',.0f'), as the characters of the result.
format_value(value, value_format) ==
    LET sign == IF value < 0 THEN <<"-">> ELSE <<>>
        magnitude == IF value < 0 THEN 0 - value ELSE value
        whole == IF value_format = ",.0f" THEN Grouped(Digits(magnitude))
                 ELSE Digits(magnitude)
        fraction == IF value_format = ".1f" THEN <<".", "0">>
                    ELSE IF value_format = ".2f" THEN <<".", "0", "0">>
                    ELSE <<>>
    IN  sign \o whole \o fraction

\* The overlay as it would be if every label showed the row's AvgDepDelay.
text_overlay_avg_delay(rows, metric, config) ==
    [locations |-> Column(rows, "StateCode"),
     text |-> [i \in 1..Len(rows) |->
                  [name |-> rows[i].StateName, br |-> "<br>",
                   number |-> format_value(rows[i].AvgDepDelay, config.value_format),
                   suffix |-> config.hover_suffix]],
     mode |-> "text", hoverinfo |-> "skip", showlegend |-> FALSE]

\* The go.Scattergeo text overlay, lines 132-143: one label per row,
\* f"{row['StateName']}<br>{row[metric]:{value_format}}{hover_suffix}".
text_overlay(rows, metric, config) ==
    [locations |-> Column(rows, "StateCode"),
     text |-> [i \in 1..Len(rows) |->
                  [name |-> rows[i].StateName, br |-> "<br>",
                   number |-> format_value(rows[i][metric], config.value_format),
                   suffix |-> config.hover_suffix]],
     mode |-> "text", hoverinfo |-> "skip", showlegend |-> FALSE]

create_choropleth(state_metrics_df, metric) ==
    LET config == choropleth_config(metric)
        rows == state_metrics_df.rows
    IN  IF ~(px_choropleth_columns(metric) \subseteq state_metrics_df.columns)
        THEN px_value_error(FirstMissing(px_choropleth_arguments(metric),
                                         state_metrics_df.columns),
                            state_metrics_df.columns)
        ELSE Return(
            [kind |-> "choropleth",
             locations |-> Column(rows, "StateCode"),
             z |-> Column(rows, metric),
             color_scale |-> config.color_scale,
             title |-> config.title,
             colorbar_title |-> config.labels_z,
             hover_label |-> config.labels_z,
             hover_format |-> config.value_format,
             hover_suffix |-> config.hover_suffix,
             overlay |-> text_overlay(rows, metric, config)])

\* What the call leaves in the caller's table: it is only read.
choropleth_input_after(state_metrics_df, metric) == state_metrics_df

(***************************************************************************)
(* 3. create_sunburst (charts.py 277-353)                                  *)
(***************************************************************************)
\* The filter as it would be if a state of no row left the table whole.
filter_state_or_all(rows, selected_state) ==
    LET kept == SelectSeq(rows, LAMBDA r : r.State = selected_state)
    IN  IF TruthyStr(selected_state) /\ kept # <<>> THEN kept ELSE rows

\* if selected_state:
\*     hierarchy_df = hierarchy_df[hierarchy_df['State'] == selected_state]
filter_state(rows, selected_state) ==
    IF TruthyStr(selected_state)
    THEN SelectSeq(rows, LAMBDA r : r.State = selected_state)
    ELSE rows

sunburst_path == <<"State", "City", "Airport", "Airline">>

\* The first k path values of a row.
PathPrefix(r, k) == [i \in 1..k |-> r[sunburst_path[i]]]

\* px.sunburst(..., path=[...], values='FlightCount', color='AvgDelay'): one
\* segment per distinct path prefix, its value the sum of FlightCount below
\* it, its colour the FlightCount-weighted mean of AvgDelay, kept as the
\* pair (weighted sum, weight).
sunburst_segments(rows) ==
    {LET below == SelectSeq(rows, LAMBDA r : PathPrefix(r, Len(p)) = p)
     IN  [id |-> p,
          value |-> SeqSum(Column(below, "FlightCount")),
          color |-> [num |-> SeqSum([i \in 1..Len(below) |->
                                below[i].FlightCount * below[i].AvgDelay]),
                     den |-> SeqSum(Column(below, "FlightCount"))]]
        : p \in {PathPrefix(rows[i], k) : i \in 1..Len(rows), k \in 1..Len(sunburst_path)}}

\* The figure as it would be without range_color: the colour domain spans
\* the AvgDelay values of the rows.
px_sunburst_auto_range(rows) ==
    LET delays == Range(Column(rows, "AvgDelay"))
    IN  [kind |-> "sunburst", segments |-> sunburst_segments(rows),
         range_color |-> IF delays = {} THEN <<0, 0>>
                         ELSE <<0 - SetMax({0 - d : d \in delays}), SetMax(delays)>>]

\* px.sunburst(hierarchy_df, ..., range_color=[0, 40], ...), lines 300-311.
px_sunburst(rows) ==
    [kind |-> "sunburst", segments |-> sunburst_segments(rows),
     range_color |-> <<0, 40>>]

\* The subtitle as it would be with the test "selected_state is not None".
sunburst_subtitle_not_none(selected_state) ==
    IF selected_state # None
    THEN <<"Filtered: ", selected_state>>
    ELSE <<"Click to drill down: State → City → Airport → Airline">>

\* The columns px.sunburst is told to read, in the order of its arguments
\* (path, values, color, hover_data).
px_sunburst_arguments ==
    sunburst_path \o <<"FlightCount", "AvgDelay", "FlightCount", "AvgDelay">>

\* subtitle, lines 313-315.
sunburst_subtitle(selected_state) ==
    IF TruthyStr(selected_state)
    THEN <<"Filtered: ", selected_state>>
    ELSE <<"Click to drill down: State → City → Airport → Airline">>

create_sunburst(hierarchy_df, selected_state) ==
    LET cols == hierarchy_df.columns
    IN  IF TruthyStr(selected_state) /\ "State" \notin cols
        THEN key_error("State")
        ELSE IF ~(Range(px_sunburst_arguments) \subseteq cols)
        THEN px_value_error(FirstMissing(px_sunburst_arguments, cols), cols)
        ELSE
            LET df == filter_state(hierarchy_df.rows, selected_state)
                fig == px_sunburst(df)
            IN  Return(
                [kind |-> fig.kind, segments |-> fig.segments,
                 range_color |-> fig.range_color,
                 title |-> "Flight Volume Hierarchy",
                 subtitle |-> sunburst_subtitle(selected_state),
                 colorbar_title |-> "Avg Delay<br>(minutes)",
                 colorbar_dtick |-> 10])

\* What the call leaves in the caller's table: the filter rebinds the local
\* name to a new table.
sunburst_input_after(hierarchy_df, selected_state) == hierarchy_df

(***************************************************************************)
(* The host page (app.py): the widgets' values and the three chart blocks. *)
(***************************************************************************)
\* options of the "Map Metric" selectbox, app.py 316-326.
map_metric_options == {"AvgDepDelay", "CancellationRate", "FlightCount"}

\* options of the "Select Metric" selectbox, app.py 368-379.
animation_metric_options ==
    {"FlightCount", "AvgDepDelay", "OnTimeRate", "CancellationRate"}

\* all_airlines = sorted(daily_airline_metrics['Airline'].unique().tolist())
all_airlines(df) ==
    SelectSeq(AirlineOrder, LAMBDA a : a \in Range(Column(df.rows, "Airline")))

\* The values the multiselect can hold: the chosen options, in option order.
multiselect_values(options) ==
    {SelectSeq(options, LAMBDA a : a \in S) : S \in SUBSET Range(options)}

\* selected_airlines=selected_airlines if selected_airlines else None
host_selected_airlines(selected) == IF selected # <<>> THEN List(selected) ELSE NoList

\* all_states = unique State values; options=['All States'] + all_states
state_options(df) == {"All States"} \cup Range(Column(df.rows, "State"))

\* sunburst_state = None if selected_state == 'All States' else selected_state
sunburst_state(selected_state) ==
    IF selected_state = "All States" THEN None ELSE selected_state

(***************************************************************************)
(* Arguments of direct calls of the generators.                            *)
(***************************************************************************)
\* Every metric either generator knows, and one that no table has.
MetricStrings ==
    {"AvgDepDelay", "CancellationRate", "FlightCount", "OnTimeRate", "ArrDelay"}

\* No filter, the empty list, one airline, both, and an airline of no row.
AirlineFilters ==
    {NoList, List(<<>>), List(<<"AA">>), List(<<"AA", "DL">>), List(<<"ZZ">>)}

\* No filter, the empty string, two states of the pool and a state of no row.
StateFilters == {None, "", "CA", "TX", "NY"}

(***************************************************************************)
(* State machine.                                                          *)
(***************************************************************************)
\* A finished call: the generator, who called it, its arguments, the value
\* of the page's state selectbox, whether the observer had already kept a
\* call when it was made, and how it ended.
Call(gen, via, metric, airlines, state, widget, result) ==
    [gen |-> gen, via |-> via, metric |-> metric, selected_airlines |-> airlines,
     selected_state |-> state, widget |-> widget,
     later |-> remembered.gen # "none",
     raised |-> result.raised, fig |-> result.fig,
     column |-> result.column, message |-> result.message, df |-> result.df]

NoCall ==
    [gen |-> "none", via |-> "none", metric |-> "", selected_airlines |-> NoList,
     selected_state |-> None, widget |-> "", later |-> FALSE,
     raised |-> "none", fig |-> NoFig, column |-> "", message |-> {}, df |-> <<>>]

\* Tables of the page: none, one day only, and an unsorted month of two days.
SampleDaily ==
    {Table(DailyColumns, <<>>),
     Table(DailyColumns, <<DailyRow(1, "AA", 1)>>),
     Table(DailyColumns,
           <<DailyRow(2, "DL", 1), DailyRow(1, "AA", 0), DailyRow(1, "DL", 1)>>)}

SampleState ==
    {Table(StateColumns, <<>>),
     Table(StateColumns, <<StateRow("TX", "Texas", 1), StateRow("CA", "California", 0)>>)}

SampleHierarchy ==
    {Table(HierarchyColumns, <<>>),
     Table(HierarchyColumns,
           <<HierarchyRow("TX", "Dallas", "DFW", "AA", 4, 41),
             HierarchyRow("CA", "Los Angeles", "LAX", "DL", 2, 55),
             HierarchyRow("CA", "Los Angeles", "LAX", "AA", 3, 12)>>)}

\* Table t as its file would load without column c.
DropColumn(t, c) ==
    Table(t.columns \ {c},
          [i \in 1..Len(t.rows) |-> [k \in t.columns \ {c} |-> t.rows[i][k]]])

\* The sample tables, each with one of its columns missing.
MissingColumn(samples) ==
    UNION {{DropColumn(t, c) : c \in t.columns} : t \in samples}

\* summary_stats.csv: one row of totals, or the header alone.
SummaryColumns ==
    {"AvgDepartureDelay", "CancellationRate", "TotalCancelled", "TotalFlights"}

SummaryRow ==
    [AvgDepartureDelay |-> 9, CancellationRate |-> 2, TotalCancelled |-> 30,
     TotalFlights |-> 1500]

SampleSummary == {Table(SummaryColumns, <<SummaryRow>>), Table(SummaryColumns, <<>>)}

\* The page before its script runs: nothing invoked, rendered or reported.
PageStart ==
    [pc |-> "load", invoked |-> <<>>, rendered |-> <<>>, errors |-> <<>>,
     uncaught |-> "none"]

InitGenerators ==
    /\ COLORS = Palette
    /\ call = NoCall
    /\ remembered = NoCall

InitRest ==
    /\ InitGenerators
    /\ summary_stats = Table(SummaryColumns, <<SummaryRow>>)
    /\ data_dir = "readable"
    /\ page = PageStart

Init ==
    /\ state_metrics \in SampleState
    /\ daily_airline_metrics \in SampleDaily
    /\ hierarchy_data \in SampleHierarchy
    /\ InitRest

InitChoropleth ==
    /\ state_metrics \in StateTables
    /\ daily_airline_metrics = Table(DailyColumns, <<>>)
    /\ hierarchy_data = Table(HierarchyColumns, <<>>)
    /\ InitRest

InitAnimated ==
    /\ state_metrics = Table(StateColumns, <<>>)
    /\ daily_airline_metrics \in DailyTables
    /\ hierarchy_data = Table(HierarchyColumns, <<>>)
    /\ InitRest

InitSunburst ==
    /\ state_metrics = Table(StateColumns, <<>>)
    /\ daily_airline_metrics = Table(DailyColumns, <<>>)
    /\ hierarchy_data \in HierarchyTables
    /\ InitRest

\* One of the three tables lacks a column.
InitMissing ==
    /\ \/ /\ state_metrics \in MissingColumn(SampleState)
          /\ daily_airline_metrics = Table(DailyColumns, <<>>)
          /\ hierarchy_data = Table(HierarchyColumns, <<>>)
       \/ /\ state_metrics = Table(StateColumns, <<>>)
          /\ daily_airline_metrics \in MissingColumn(SampleDaily)
          /\ hierarchy_data = Table(HierarchyColumns, <<>>)
       \/ /\ state_metrics = Table(StateColumns, <<>>)
          /\ daily_airline_metrics = Table(DailyColumns, <<>>)
          /\ hierarchy_data \in MissingColumn(SampleHierarchy)
    /\ InitRest

\* create_choropleth(state_metrics, metric) called with any metric string.
CallChoropleth ==
    \E metric \in MetricStrings :
        /\ call' = Call("create_choropleth", "direct", metric, NoList, None, "",
                        create_choropleth(state_metrics, metric))
        /\ state_metrics' = choropleth_input_after(state_metrics, metric)
        /\ UNCHANGED <<daily_airline_metrics, hierarchy_data, COLORS, remembered,
                     summary_stats, data_dir, page>>

\* create_animated_airline_chart called with any metric string and filter.
CallAnimated ==
    \E metric \in MetricStrings, airlines \in AirlineFilters :
        /\ call' = Call("create_animated_airline_chart", "direct", metric, airlines,
                        None, "",
                        create_animated_airline_chart(daily_airline_metrics, metric,
                                                      airlines))
        /\ daily_airline_metrics' =
               animated_input_after(daily_airline_metrics, metric, airlines)
        /\ UNCHANGED <<state_metrics, hierarchy_data, COLORS, remembered,
                     summary_stats, data_dir, page>>

\* create_sunburst called with any state filter.
CallSunburst ==
    \E state \in StateFilters :
        /\ call' = Call("create_sunburst", "direct", "", NoList, state, "",
                        create_sunburst(hierarchy_data, state))
        /\ hierarchy_data' = sunburst_input_after(hierarchy_data, state)
        /\ UNCHANGED <<state_metrics, daily_airline_metrics, COLORS, remembered,
                     summary_stats, data_dir, page>>

\* app.py 316-343: the map block of the page.
RunMap ==
    \E map_metric \in map_metric_options :
        /\ call' = Call("create_choropleth", "host", map_metric, NoList, None, "",
                        create_choropleth(state_metrics, map_metric))
        /\ state_metrics' = choropleth_input_after(state_metrics, map_metric)
        /\ UNCHANGED <<daily_airline_metrics, hierarchy_data, COLORS, remembered,
                     summary_stats, data_dir>>

\* app.py 356-398: the animation block of the page.
RunAnimation ==
    \E animation_metric \in animation_metric_options,
       selected \in multiselect_values(all_airlines(daily_airline_metrics)) :
        LET airlines == host_selected_airlines(selected)
        IN  /\ call' = Call("create_animated_airline_chart", "host", animation_metric,
                            airlines, None, "",
                            create_animated_airline_chart(daily_airline_metrics,
                                                          animation_metric, airlines))
            /\ daily_airline_metrics' =
                   animated_input_after(daily_airline_metrics, animation_metric,
                                        airlines)
            /\ UNCHANGED <<state_metrics, hierarchy_data, COLORS, remembered,
                         summary_stats, data_dir>>

\* app.py 412-436: the sunburst block of the page.
RunSunburst ==
    \E selected_state \in state_options(hierarchy_data) :
        LET state == sunburst_state(selected_state)
        IN  /\ call' = Call("create_sunburst", "host", "", NoList, state,
                            selected_state, create_sunburst(hierarchy_data, state))
            /\ hierarchy_data' = sunburst_input_after(hierarchy_data, state)
            /\ UNCHANGED <<state_metrics, daily_airline_metrics, COLORS, remembered,
                         summary_stats, data_dir>>

\* One of the three chart blocks runs, as it does again on every change of
\* its widgets.
HostChoropleth == RunMap /\ UNCHANGED page

HostAnimated == RunAnimation /\ UNCHANGED page

HostSunburst == RunSunburst /\ UNCHANGED page

\* An observer keeps one finished call to compare later calls with.
Remember ==
    /\ remembered = NoCall
    /\ call # NoCall
    /\ remembered' = call
    /\ UNCHANGED <<state_metrics, daily_airline_metrics, hierarchy_data, COLORS, call,
                 summary_stats, data_dir, page>>

\* The page: its three chart blocks, run again on every change of a widget.
Next ==
    \/ HostChoropleth
    \/ HostAnimated
    \/ HostSunburst
    \/ Remember

(***************************************************************************)
(* One run of the page script (app.py 215-436), block by block.            *)
(***************************************************************************)
\* The files as the page may find them: the samples, and a table without
\* the column its block's widget reads or its map labels need.
InitPage ==
    /\ state_metrics \in
           SampleState \cup {DropColumn(t, "StateName") : t \in SampleState}
    /\ daily_airline_metrics \in
           SampleDaily \cup {DropColumn(t, "Airline") : t \in SampleDaily}
    /\ hierarchy_data \in
           SampleHierarchy \cup {DropColumn(t, "State") : t \in SampleHierarchy}
    /\ summary_stats \in SampleSummary
    /\ data_dir \in {"readable", "unreadable"}
    /\ page = PageStart
    /\ InitGenerators

\* The end of a chart block's try: st.plotly_chart of the returned figure,
\* or st.error in the except branch.
AfterChart(p, generator, chart, text, result, next) ==
    [p EXCEPT !.pc = next,
              !.invoked = Append(@, generator),
              !.rendered = IF result.raised = "none" THEN Append(@, chart) ELSE @,
              !.errors = IF result.raised = "none" THEN @
                         ELSE Append(@, [text |-> text, exc |-> result.raised])]

\* An exception outside every try ends the run of the script.
Uncaught(p, exc) == [p EXCEPT !.pc = "stopped", !.uncaught = exc]

\* app.py 215-225: load_data() in a try; on an exception st.error and
\* st.stop().
LoadData ==
    /\ page.pc = "load"
    /\ page' = IF data_dir = "readable"
               THEN [page EXCEPT !.pc = "kpi"]
               ELSE [page EXCEPT !.pc = "stopped",
                                 !.errors = Append(@, [text |-> "Error loading data",
                                                       exc |-> "FileNotFoundError"])]
    /\ UNCHANGED <<state_metrics, daily_airline_metrics, hierarchy_data, COLORS,
                   call, remembered, summary_stats, data_dir>>

\* app.py 245-249: the first record of summary_stats, read outside any try.
KpiCards ==
    /\ page.pc = "kpi"
    /\ page' = IF summary_stats.rows = <<>>
               THEN Uncaught(page, "IndexError")
               ELSE [page EXCEPT !.pc = "map"]
    /\ UNCHANGED <<state_metrics, daily_airline_metrics, hierarchy_data, COLORS,
                   call, remembered, summary_stats, data_dir>>

\* app.py 316-343.
MapBlock ==
    /\ page.pc = "map"
    /\ RunMap
    /\ page' = AfterChart(page, "create_choropleth", "choropleth",
                          "Error creating map", call', "animation")

\* app.py 356-398: the multiselect reads daily_airline_metrics['Airline']
\* (line 358) before the try of lines 387-398.
AnimationBlock ==
    /\ page.pc = "animation"
    /\ IF "Airline" \in daily_airline_metrics.columns
       THEN /\ RunAnimation
            /\ page' = AfterChart(page, "create_animated_airline_chart", "animation",
                                  "Error creating animated chart", call', "sunburst")
       ELSE /\ page' = Uncaught(page, "KeyError")
            /\ UNCHANGED <<state_metrics, daily_airline_metrics, hierarchy_data,
                           COLORS, call, remembered, summary_stats, data_dir>>

\* app.py 412-436: the selectbox reads hierarchy_data['State'] (line 412)
\* before the try of lines 429-436.
SunburstBlock ==
    /\ page.pc = "sunburst"
    /\ IF "State" \in hierarchy_data.columns
       THEN /\ RunSunburst
            /\ page' = AfterChart(page, "create_sunburst", "sunburst",
                                  "Error creating sunburst chart", call', "done")
       ELSE /\ page' = Uncaught(page, "KeyError")
            /\ UNCHANGED <<state_metrics, daily_airline_metrics, hierarchy_data,
                           COLORS, call, remembered, summary_stats, data_dir>>

NextPage == LoadData \/ KpiCards \/ MapBlock \/ AnimationBlock \/ SunburstBlock

\* One call of a generator on the table, directly or from its page block.
ApplyChoropleth == call = NoCall /\ CallChoropleth

ApplyHostChoropleth == call = NoCall /\ HostChoropleth

ApplyAnimated == call = NoCall /\ CallAnimated

ApplyHostAnimated == call = NoCall /\ HostAnimated

ApplySunburst == call = NoCall /\ CallSunburst

ApplyHostSunburst == call = NoCall /\ HostSunburst

NextChoropleth == ApplyChoropleth \/ ApplyHostChoropleth

NextAnimated == ApplyAnimated \/ ApplyHostAnimated

NextSunburst == ApplySunburst \/ ApplyHostSunburst

NextMissing == ApplyChoropleth \/ ApplyAnimated \/ ApplySunburst

Spec == Init /\ [][Next]_vars

SpecChoropleth == InitChoropleth /\ [][NextChoropleth]_vars

SpecAnimated == InitAnimated /\ [][NextAnimated]_vars

SpecSunburst == InitSunburst /\ [][NextSunburst]_vars

SpecMissing == InitMissing /\ [][NextMissing]_vars

SpecPage == InitPage /\ [][NextPage]_vars

(***************************************************************************)
(* Properties.                                                             *)
(***************************************************************************)
IsChoropleth == call.gen = "create_choropleth"

IsAnimated == call.gen = "create_animated_airline_chart"

IsSunburst == call.gen = "create_sunburst"

Returned == call.gen # "none" /\ call.raised = "none"

\* The rows of the daily table that an airline filter keeps: all of them
\* for no filter or an empty one.
KeptDaily ==
    LET rows == daily_airline_metrics.rows
        f == call.selected_airlines
    IN  SelectSeq(rows, LAMBDA r :
            f.none \/ f.list = <<>> \/ r.Airline \in Range(f.list))

\* C1: for a metric string that the generator does not recognise and that
\* names no column of the table, the call returns a figure built with the
\* default descriptor (AvgDepDelay for the map, FlightCount for the bars)
\* and does not raise.
C1_UnknownMetricFallsBack ==
    /\ (IsChoropleth /\ call.metric \notin DOMAIN choropleth_metric_config
            /\ call.metric \notin state_metrics.columns)
        => /\ call.raised = "none"
           /\ call.fig.title = choropleth_metric_config["AvgDepDelay"].title
           /\ call.fig.colorbar_title = choropleth_metric_config["AvgDepDelay"].labels_z
    /\ (IsAnimated /\ call.metric \notin DOMAIN animated_metric_config
            /\ call.metric \notin daily_airline_metrics.columns)
        => /\ call.raised = "none"
           /\ call.fig.title = animated_metric_config["FlightCount"].title
           /\ call.fig.xaxis_title = animated_metric_config["FlightCount"].x_label

\* C2: for each valid metric (map: AvgDepDelay, CancellationRate,
\* FlightCount; bars: FlightCount, AvgDepDelay, OnTimeRate,
\* CancellationRate) the figure's title and its colour-bar or axis label
\* of a returned figure are those of that metric's own descriptor.
C2_OwnDescriptor ==
    /\ (IsChoropleth /\ call.metric \in map_metric_options /\ Returned)
        => /\ call.metric \in DOMAIN choropleth_metric_config
           /\ call.fig.title = choropleth_metric_config[call.metric].title
           /\ call.fig.colorbar_title = choropleth_metric_config[call.metric].labels_z
    /\ (IsAnimated /\ call.metric \in animation_metric_options /\ Returned)
        => /\ call.metric \in DOMAIN animated_metric_config
           /\ call.fig.title = animated_metric_config[call.metric].title
           /\ call.fig.xaxis_title = animated_metric_config[call.metric].x_label

\* The x-axis bound the claim C3 states, in tenths: 1.1 times the largest
\* value of the metric among the kept rows, and 100 when there is no kept
\* row or no kept value above 0.
ExpectedBound ==
    LET vals == Range(Column(KeptDaily, call.metric))
    IN  IF vals = {} \/ \A v \in vals : v <= 0 THEN 1000
        ELSE 11 * (CHOOSE v \in vals : \A w \in vals : w <= v)

\* C3: once the animated chart has its layout, its x-axis range is [0, U],
\* U being 1.1 times the largest value of the metric among the rows the
\* airline filter keeps, and exactly 100 when no row is kept or that
\* largest value is at most 0; rows the filter drops do not count.
C3_AxisBound ==
    (IsAnimated /\ call.fig # NoFig)
        => call.fig.xaxis_range = <<0, ExpectedBound>>

\* A returned chart whose filter dropped a row with a value above every
\* kept one, the bound following the kept rows.
C3_Witness ==
    /\ IsAnimated /\ Returned
    /\ \E i \in 1..Len(daily_airline_metrics.rows) :
           \A j \in 1..Len(KeptDaily) :
               daily_airline_metrics.rows[i][call.metric] > KeptDaily[j][call.metric]
    /\ call.fig.xaxis_range[2] > 0
    /\ call.fig.xaxis_range[2] # 1000
    /\ call.fig.xaxis_range[2] = ExpectedBound

\* C4: for every table, filter and metric of the table, the call returns a
\* figure with as many frames as there are distinct Day values among the
\* kept rows (also when there is one), the frames in non-decreasing Day
\* order.
C4_FramePerDay ==
    (IsAnimated /\ call.metric \in daily_airline_metrics.columns)
        => /\ call.raised = "none"
           /\ Len(call.fig.frames) = Cardinality(Range(Column(KeptDaily, "Day")))
           /\ \A i, j \in 1..Len(call.fig.frames) :
                  i <= j => call.fig.frames[i].name <= call.fig.frames[j].name

\* The other way of giving no airline filter.
OtherNoFilter(f) == IF f.none THEN List(<<>>) ELSE NoList

\* C5: called with an empty airline filter the animated chart ends as it
\* does with no filter (None): every row is kept, and the outcome, the
\* x-axis bound and the frames are the same.
C5_EmptyFilterIsNoFilter ==
    (IsAnimated /\ call.selected_airlines \in {NoList, List(<<>>)})
        => LET other == create_animated_airline_chart(
                            daily_airline_metrics, call.metric,
                            OtherNoFilter(call.selected_airlines))
           IN  /\ call.raised = other.raised
               /\ call.fig = other.fig
               /\ call.fig # NoFig =>
                      /\ call.fig.xaxis_range = <<0, x_range_max(
                             daily_airline_metrics.rows, call.metric)>>
                      /\ SeqSum([i \in 1..Len(call.fig.frames) |->
                             SeqSum([j \in 1..Len(call.fig.frames[i].data) |->
                                 Len(call.fig.frames[i].data[j].x)])])
                           = IF call.fig.frames = <<>> THEN 0
                             ELSE Len(daily_airline_metrics.rows)

\* A chart returned for the empty filter over rows of two airlines.
C5_Witness ==
    /\ IsAnimated /\ Returned
    /\ call.selected_airlines = List(<<>>)
    /\ Cardinality(Range(Column(daily_airline_metrics.rows, "Airline"))) = 2
    /\ Len(call.fig.frames) = 2

\* C6: when the table has no row, or the filter keeps none, each generator
\* returns an empty figure and does not raise.
C6_EmptyInputReturns ==
    /\ (IsChoropleth /\ call.metric \in map_metric_options
            /\ state_metrics.rows = <<>>)
        => /\ call.raised = "none"
           /\ call.fig.locations = <<>>
    /\ (IsAnimated /\ call.metric \in animation_metric_options /\ KeptDaily = <<>>)
        => /\ call.raised = "none"
           /\ call.fig.frames = <<>>
    /\ (IsSunburst /\ hierarchy_data.rows = <<>>)
        => /\ call.raised = "none"
           /\ call.fig.segments = {}

\* The rows of the hierarchy table a state filter stands for: the rows of
\* that state for a non-empty filter, every row for None or ''.
ExpectedHierarchy ==
    LET rows == hierarchy_data.rows
        s == call.selected_state
    IN  IF s # None /\ s # "" THEN SelectSeq(rows, LAMBDA r : r.State = s) ELSE rows

\* The AvgDelay values of the rows the call used.
UsedDelays == Range(Column(ExpectedHierarchy, "AvgDelay"))

\* C7: whatever the table and the state filter, the figure create_sunburst
\* returns has colour domain exactly [0, 40], also when AvgDelay values lie
\* below 0 or above 40.
C7_ColorDomain ==
    (IsSunburst /\ Returned) => call.fig.range_color = <<0, 40>>

\* A returned sunburst over rows with an AvgDelay below 0 and one above 40.
C7_Witness ==
    /\ IsSunburst /\ Returned
    /\ \E d \in UsedDelays : d < 0
    /\ \E d \in UsedDelays : d > 40
    /\ call.fig.range_color = <<0, 40>>

\* C8: a state filter equal to no row's State leaves no row, and the call
\* returns a figure without segments and does not raise.
C8_AbsentStateIsEmpty ==
    (IsSunburst /\ call.selected_state # None /\ call.selected_state # ""
        /\ call.selected_state \notin Range(Column(hierarchy_data.rows, "State")))
        => /\ call.raised = "none"
           /\ call.fig.kind = "sunburst"
           /\ call.fig.segments = {}

\* A table with rows, none of the state asked for, and an empty sunburst.
C8_Witness ==
    /\ IsSunburst /\ Returned
    /\ hierarchy_data.rows # <<>>
    /\ call.selected_state = "NY"
    /\ "NY" \notin Range(Column(hierarchy_data.rows, "State"))
    /\ call.fig.segments = {}

\* The leaves of a sunburst: its segments with a full path.
Leaves(fig) == {g \in fig.segments : Len(g.id) = Len(sunburst_path)}

\* C9: create_sunburst shows exactly the rows whose State equals a
\* non-empty filter and every row for the filter None or ''; the subtitle
\* is 'Filtered: <state>' exactly when the rows were filtered and the
\* drill-down text otherwise; the page passes None exactly when
\* 'All States' is selected.
C9_FilterAndSubtitle ==
    (IsSunburst /\ Returned) =>
        LET s == call.selected_state
            filtered == s # None /\ s # ""
            rows == ExpectedHierarchy
        IN  /\ {g.id : g \in Leaves(call.fig)}
                   = {PathPrefix(rows[i], Len(sunburst_path)) : i \in 1..Len(rows)}
            /\ \A g \in Leaves(call.fig) :
                   g.value = SeqSum(Column(
                       SelectSeq(rows, LAMBDA r :
                           PathPrefix(r, Len(sunburst_path)) = g.id),
                       "FlightCount"))
            /\ filtered => call.fig.subtitle = <<"Filtered: ", s>>
            /\ ~filtered => /\ Len(call.fig.subtitle) = 1
                            /\ call.fig.subtitle # <<"Filtered: ">>
            /\ call.via = "host" => (s = None <=> call.widget = "All States")

\* The page filtered a table of two states down to one of them.
C9_Witness ==
    /\ IsSunburst /\ Returned
    /\ call.via = "host"
    /\ call.widget = "CA"
    /\ Cardinality(Range(Column(hierarchy_data.rows, "State"))) = 2
    /\ call.fig.subtitle = <<"Filtered: ", "CA">>
    /\ \A g \in call.fig.segments : g.id[1] = "CA"
    /\ call.fig.segments # {}

\* The arguments of the kept call and of the last call are the same.
SameInputs ==
    /\ remembered.gen = call.gen
    /\ remembered.metric = call.metric
    /\ remembered.selected_airlines = call.selected_airlines
    /\ remembered.selected_state = call.selected_state

\* C10: a generator called again with the same inputs, whatever calls came
\* in between, ends as it did before (same outcome, same figure: same data
\* bindings, same axis bound), and no call changes the caller's tables or
\* the palette.
C10_Idempotent ==
    /\ [](call.later /\ SameInputs
            => call.raised = remembered.raised /\ call.fig = remembered.fig)
    /\ [][/\ state_metrics' = state_metrics
          /\ daily_airline_metrics' = daily_airline_metrics
          /\ hierarchy_data' = hierarchy_data
          /\ COLORS' = COLORS]_vars

\* The animated chart was returned, kept, and returned again for the same
\* inputs over an unsorted table.
C10_Witness ==
    /\ IsAnimated /\ Returned /\ call.later
    /\ SameInputs
    /\ remembered.raised = "none"
    /\ sort_values(daily_airline_metrics.rows, call.metric)
           # daily_airline_metrics.rows
    /\ call.fig = remembered.fig

\* The whole number that the characters of a formatted value denote:
\* separators skipped, the digits after the point dropped.
RECURSIVE WholeValue(_, _)
WholeValue(chars, acc) ==
    IF chars = <<>> \/ Head(chars) = "." THEN acc
    ELSE IF Head(chars) \in {",", "-"} THEN WholeValue(Tail(chars), acc)
    ELSE WholeValue(Tail(chars),
             10 * acc + (CHOOSE d \in 0..9 : DigitChars[d + 1] = Head(chars)))

NumberValue(chars) ==
    IF chars # <<>> /\ Head(chars) = "-"
    THEN 0 - WholeValue(chars, 0)
    ELSE WholeValue(chars, 0)

\* C11: the map returned for a valid metric carries one overlay label per
\* row of the table, as many as rows and as coloured locations; label i is
\* row i's StateName followed by row i's value of the selected metric in
\* that metric's format and with its unit suffix; the overlay has hover
\* disabled.
C11_OneLabelPerRow ==
    (IsChoropleth /\ Returned /\ call.metric \in map_metric_options) =>
        LET rows == state_metrics.rows
            own == choropleth_metric_config[call.metric]
            overlay == call.fig.overlay
        IN  /\ Len(overlay.text) = Len(rows)
            /\ Len(overlay.text) = Len(call.fig.locations)
            /\ overlay.locations = call.fig.locations
            /\ overlay.hoverinfo = "skip"
            /\ \A i \in 1..Len(rows) :
                   /\ overlay.text[i].name = rows[i].StateName
                   /\ overlay.text[i].number
                          = format_value(rows[i][call.metric], own.value_format)
                   /\ NumberValue(overlay.text[i].number) = rows[i][call.metric]
                   /\ overlay.text[i].suffix = own.hover_suffix

\* A map of FlightCount over two rows of different states, the first label
\* reading 'Texas', '1,500', ' flights'.
C11_Witness ==
    /\ IsChoropleth /\ Returned
    /\ call.metric = "FlightCount"
    /\ Len(state_metrics.rows) >= 2
    /\ state_metrics.rows[1].StateCode # state_metrics.rows[2].StateCode
    /\ Len(call.fig.overlay.text) = Len(state_metrics.rows)
    /\ call.fig.overlay.text[1].name = "Texas"
    /\ call.fig.overlay.text[1].number = <<"1", ",", "5", "0", "0">>
    /\ call.fig.overlay.text[1].suffix = " flights"

\* The columns the called generator needs that its input table lacks, for
\* a metric the table's schema has.
LackedColumns ==
    IF IsChoropleth /\ call.metric \in StateColumns
    THEN ({"StateCode", "StateName", "FlightCount", call.metric}) \ state_metrics.columns
    ELSE IF IsAnimated /\ call.metric \in DailyColumns
    THEN DailyColumns \ daily_airline_metrics.columns
    ELSE IF IsSunburst
    THEN HierarchyColumns \ hierarchy_data.columns
    ELSE {}

\* C12: a generator called on a table that lacks a column it requires
\* raises, without returning a figure, an error that identifies a missing
\* column and the generator that was called.
C12_MissingColumnError ==
    (call.gen # "none" /\ LackedColumns # {}) =>
        /\ call.raised # "none"
        /\ call.fig = NoFig
        /\ call.column \in LackedColumns
        /\ call.column \in call.message
        /\ call.gen \in call.message

\* The rows of a table with the given Day and the given value of the
\* call's metric, in the table's order.
SameKey(rows, day, value) ==
    SelectSeq(rows, LAMBDA r : r.Day = day /\ r[call.metric] = value)

Generators ==
    <<"create_choropleth", "create_animated_airline_chart", "create_sunburst">>

\* The messages of the page that report a failed chart.
ChartErrors == SelectSeq(page.errors, LAMBDA e : e.text # "Error loading data")

\* C13: when a run of the page has ended, a generator that raised gave one
\* error message for its chart while all three generators were invoked in
\* the order choropleth, animated bars, sunburst and the charts that did
\* not fail were rendered; and the page stopped before any generator was
\* called only when loading the data failed.
C13_FailureIsolation ==
    page.pc \in {"done", "stopped"} =>
        /\ ChartErrors # <<>> =>
               /\ page.invoked = Generators
               /\ Len(page.rendered) + Len(ChartErrors) = Len(Generators)
        /\ (page.pc = "stopped" /\ page.invoked = <<>>) =>
               /\ data_dir = "unreadable"
               /\ Len(page.errors) = 1
               /\ page.errors[1].text = "Error loading data"

====
